---- MODULE Spec2Model ----
(***************************************************************************)
(* SurvEase: the Feed page, the Leaderboard page, the fill/rate modal and  *)
(* the Navigation shell, each a React component that reads and writes a    *)
(* hosted backend directly and aggregates the fetched rows on the client.  *)
(*                                                                         *)
(* One module, several specifications over the same variables:             *)
(*   Spec         the request/response protocol of the routed page (Feed   *)
(*                or Leaderboard), with the backend's answers drawn from   *)
(*                small sets;                                              *)
(*   SpecView     the Feed's render pipeline (filter, sort, average) over  *)
(*                fetched forms drawn from a bounded set;                  *)
(*   SpecStats    the Leaderboard's per-poster statistics over responses   *)
(*                drawn from a bounded set;                                *)
(*   SpecRanking  the Leaderboard's sort/slice/rank over lists long enough *)
(*                to be truncated;                                         *)
(*   SpecNav      the Navigation shell (dark mode, links, logout);         *)
(*   SpecModal    the fill/rate modal on its own, driven through its       *)
(*                buttons and inputs;                                      *)
(*   SpecHandler  the modal's handleSubmit called from every rating,       *)
(*                comment and user;                                        *)
(*   SpecLive     the pages and the modal with a backend that answers      *)
(*                every request (weak fairness of the answers).            *)
(*                                                                         *)
(* Conventions.  A nullable value is an option: <<>> is null, <<x>> is x.  *)
(* A string whose characters matter (title, description, search term) is a *)
(* sequence of one-character strings.  A rational (a JavaScript number     *)
(* that is the quotient of two small integers) is [num, den] in lowest     *)
(* terms with den > 0.                                                     *)
(***************************************************************************)
EXTENDS Integers, Sequences, FiniteSets, TLC

VARIABLES
    \* ---- routing
    page,           \* the page the router's Outlet renders: "feed" | "leaderboard" | "none"
    \* ---- Feed (src/src/pages/Feed.tsx)
    forms, loading, error, searchTerm, sortBy, filterTag,
    cards,          \* the FormCard props rendered from sortedForms (empty unless the list view shows)
    feedMounted,    \* the mount effect has run
    feedInv,        \* the fetchForms invocations in flight, oldest first
    feedLast,       \* history: the last invocation that finished
    feedWatch,      \* observer: the place in feedInv of the invocation being followed,
                    \* 0 while none is followed, -1 once the followed one has finished
    fillPc,         \* a FormFillModal.handleSubmit whose insert is in flight
    \* ---- Leaderboard (src/unnamed/part_000, lines 1-365)
    topFillers, topPosters, lbLoading,
    lbPc,           \* position of fetchLeaderboardData
    lbLoc,          \* its local variables
    lbInflight,     \* its backend requests that have been sent and not yet answered
    lbLog,          \* history: every request it sent, in order
    \* ---- sonner
    toasts,         \* the notifications shown so far
    \* ---- Navigation (src/unnamed/part_000, lines 595-748)
    navPhase,       \* "unmounted" | "mounted" (rendered, effect pending) | "ready"
    isDarkMode, lsDarkMode, darkClass,
    lastToggled,    \* history: the value the last toggleDarkMode chose
    user, location, logoutPc,
    \* ---- FormFillModal (src/unnamed/part_000, lines 366-592), one instance
    isOpen,         \* the isOpen prop, which the parent sets and onClose clears
    rating, comment, isSubmitting,
    inserts,        \* the form_fills inserts that have been sent and not yet answered
    modalCalls      \* history: the calls on toast and on the props made by the last handler run

routeVars == <<page>>
feedVars  == <<forms, loading, error, searchTerm, sortBy, filterTag, cards,
               feedMounted, feedInv, feedLast, feedWatch, fillPc>>
lbVars    == <<topFillers, topPosters, lbLoading, lbPc, lbLoc, lbInflight, lbLog>>
navVars   == <<navPhase, isDarkMode, lsDarkMode, darkClass, lastToggled,
               user, location, logoutPc>>
modalVars == <<isOpen, rating, comment, isSubmitting, inserts, modalCalls>>
vars      == <<routeVars, feedVars, lbVars, toasts, navVars, modalVars>>

\* ------------------------------------------------------------------ values

None    == <<>>
Some(x) == <<x>>
NULL    == "null"

\* The locals of fetchLeaderboardData.
EmptyLoc ==
    [ fillersData      |-> <<>>,   \* the rows of the form_fills query
      fillerStats      |-> <<>>,   \* Record<userId, stats>, in key (insertion) order
      queue            |-> <<>>,   \* the user ids the running for...of has still to visit
      fillersWithNames |-> <<>>,
      posterStats      |-> <<>>,
      postersWithNames |-> <<>>,
      profile          |-> None,   \* the loop body's locals, for the user being visited
      userForms        |-> None,
      responses        |-> None,
      caught           |-> None,   \* the catch clause's error
      errors           |-> {},     \* history: the requests that were answered with an error
      noProfile        |-> {},     \* history: the profile lookups that returned no row
      fetched          |-> <<>> ]  \* history: per pushed poster, the rows fetched for it

\* The pages' variables while no page of theirs is modelled.
FeedIdle ==
    /\ forms = <<>> /\ loading = TRUE /\ error = NULL
    /\ searchTerm = <<>> /\ sortBy = "newest" /\ filterTag = "all"
    /\ cards = <<>> /\ feedMounted = FALSE
    /\ feedInv = <<>> /\ feedLast = None /\ feedWatch = 0 /\ fillPc = "idle"

LbIdle ==
    /\ topFillers = <<>> /\ topPosters = <<>> /\ lbLoading = TRUE
    /\ lbPc = "idle" /\ lbLoc = EmptyLoc /\ lbInflight = {} /\ lbLog = <<>>

NavIdle ==
    /\ navPhase = "unmounted" /\ isDarkMode = FALSE /\ lsDarkMode = NULL
    /\ darkClass = FALSE /\ lastToggled = "none"
    /\ user = NULL /\ location = "/" /\ logoutPc = "idle"

ModalIdle ==
    /\ isOpen = FALSE /\ rating = 0 /\ comment = <<>> /\ isSubmitting = FALSE
    /\ inserts = <<>> /\ modalCalls = <<>>

\* ------------------------------------------------------------- Navigation

\* Boolean.prototype.toString
BoolToString(b) == IF b THEN "true" ELSE "false"

\* What localStorage may hold under 'darkMode' before the app ever ran.
StoredValues == {NULL, "true", "false", "1"}

\* <Link to=...> rendered by Navigation for the current user.
NavLinks == IF user # NULL
            THEN {"/", "/dashboard", "/feed", "/leaderboard", "/post-form", "/profile"}
            ELSE {"/", "/login", "/register"}

\* const isActive = (path) => location.pathname === path
isActive(path) == location = path

\* useState(false): the component instance is created and rendered.
NavMount ==
    /\ navPhase = "unmounted"
    /\ navPhase' = "mounted"
    /\ isDarkMode' = FALSE
    /\ logoutPc' = "idle"
    /\ UNCHANGED <<lsDarkMode, darkClass, lastToggled, user, location>>
    /\ UNCHANGED <<routeVars, modalVars, feedVars, lbVars, toasts>>

\* useEffect(() => {...}, []): initialise dark mode from localStorage.
NavInitEffect ==
    /\ navPhase = "mounted"
    /\ LET savedDarkMode == (lsDarkMode = "true") IN
       /\ isDarkMode' = savedDarkMode
       /\ darkClass' = IF savedDarkMode THEN TRUE ELSE darkClass
    /\ navPhase' = "ready"
    /\ UNCHANGED <<lsDarkMode, lastToggled, user, location, logoutPc>>
    /\ UNCHANGED <<routeVars, modalVars, feedVars, lbVars, toasts>>

\* A bug toggleDarkMode could have: it stores the value it read, not the new one.
toggleDarkModeStale ==
    /\ navPhase = "ready"
    /\ LET newDarkMode == ~isDarkMode IN
       /\ isDarkMode' = newDarkMode
       /\ lsDarkMode' = BoolToString(isDarkMode)
       /\ darkClass' = newDarkMode
       /\ lastToggled' = BoolToString(newDarkMode)
    /\ UNCHANGED <<navPhase, user, location, logoutPc>>
    /\ UNCHANGED <<routeVars, modalVars, feedVars, lbVars, toasts>>

toggleDarkMode ==
    /\ navPhase = "ready"
    /\ LET newDarkMode == ~isDarkMode IN
       /\ isDarkMode' = newDarkMode
       /\ lsDarkMode' = BoolToString(newDarkMode)
       /\ darkClass' = newDarkMode
       /\ lastToggled' = BoolToString(newDarkMode)
    /\ UNCHANGED <<navPhase, user, location, logoutPc>>
    /\ UNCHANGED <<routeVars, modalVars, feedVars, lbVars, toasts>>

\* The Layout leaves the tree (a route outside it) and the document stays.
NavUnmount ==
    /\ navPhase \in {"mounted", "ready"}
    /\ navPhase' = "unmounted"
    /\ isDarkMode' = FALSE
    /\ logoutPc' = "idle"
    /\ UNCHANGED <<lsDarkMode, darkClass, lastToggled, user, location>>
    /\ UNCHANGED <<routeVars, modalVars, feedVars, lbVars, toasts>>

\* The page is loaded again: a fresh document, the same localStorage.
PageReload ==
    /\ navPhase \in {"mounted", "ready"}
    /\ navPhase' = "unmounted"
    /\ isDarkMode' = FALSE
    /\ darkClass' = FALSE
    /\ logoutPc' = "idle"
    /\ UNCHANGED <<lsDarkMode, lastToggled, user, location>>
    /\ UNCHANGED <<routeVars, modalVars, feedVars, lbVars, toasts>>

\* A click on one of the rendered links.
ClickLink ==
    /\ navPhase = "ready"
    /\ \E path \in NavLinks :
         /\ ~isActive(path)
         /\ location' = path
    /\ UNCHANGED <<navPhase, isDarkMode, lsDarkMode, darkClass, lastToggled, user, logoutPc>>
    /\ UNCHANGED <<routeVars, modalVars, feedVars, lbVars, toasts>>

\* handleLogout up to its await.
handleLogout ==
    /\ navPhase = "ready"
    /\ user # NULL
    /\ logoutPc = "idle"
    /\ logoutPc' = "awaitLogout"
    /\ UNCHANGED <<navPhase, isDarkMode, lsDarkMode, darkClass, lastToggled, user, location>>
    /\ UNCHANGED <<routeVars, modalVars, feedVars, lbVars, toasts>>

\* logout() resolved: the success toast and navigate('/').
LogoutResolved ==
    /\ logoutPc = "awaitLogout"
    /\ user' = NULL
    /\ toasts' = toasts \cup {[kind |-> "success", text |-> "Logged out successfully"]}
    /\ location' = "/"
    /\ logoutPc' = "idle"
    /\ UNCHANGED <<navPhase, isDarkMode, lsDarkMode, darkClass, lastToggled>>
    /\ UNCHANGED <<routeVars, modalVars, feedVars, lbVars>>

\* logout() rejected: the catch block.
LogoutRejected ==
    /\ logoutPc = "awaitLogout"
    /\ toasts' = toasts \cup {[kind |-> "error", text |-> "Failed to logout"]}
    /\ logoutPc' = "idle"
    /\ UNCHANGED <<navPhase, isDarkMode, lsDarkMode, darkClass, lastToggled, user, location>>
    /\ UNCHANGED <<routeVars, modalVars, feedVars, lbVars>>

\* ------------------------------------------------------ Feed: the rendering

\* String.prototype.toLowerCase, on the letters the model uses.
LowerChar(c) == CASE c = "A" -> "a" [] c = "B" -> "b" [] OTHER -> c
toLowerCase(str) == [i \in 1..Len(str) |-> LowerChar(str[i])]

\* String.prototype.includes
includes(str, sub) ==
    \E k \in 0..(Len(str) - Len(sub)) : SubSeq(str, k + 1, k + Len(sub)) = sub

\* Array.prototype.includes
arrayIncludes(arr, x) == \E i \in 1..Len(arr) : arr[i] = x

RECURSIVE GCD(_, _)
GCD(a, b) == IF b = 0 THEN a ELSE GCD(b, a % b)

\* The number n / d (d > 0, n >= 0), in lowest terms.
Rat(n, d) == LET g == GCD(n, d) IN [num |-> n \div g, den |-> d \div g]

\* The sign of a - b for two such numbers.
RatCompare(a, b) == a.num * b.den - b.num * a.den

\* fills.reduce((sum, fill) => sum + fill.rating, 0)
RECURSIVE SumRatings(_)
SumRatings(fills) ==
    IF fills = <<>> THEN 0
    ELSE SumRatings(SubSeq(fills, 1, Len(fills) - 1)) + fills[Len(fills)].rating

\* A bug the average could have: the quotient is truncated to an integer.
averageRatingTruncated(form_fills) ==
    IF Len(form_fills) > 0 THEN Rat(SumRatings(form_fills) \div Len(form_fills), 1)
    ELSE Rat(0, 1)

\* form_fills.length > 0 ? form_fills.reduce(...) / form_fills.length : 0
averageRating(form_fills) ==
    IF Len(form_fills) > 0 THEN Rat(SumRatings(form_fills), Len(form_fills))
    ELSE Rat(0, 1)

\* A bug the search could have: the term is compared as typed.
matchesSearchAsTyped(form, term) ==
    \/ includes(toLowerCase(form.title), term)
    \/ /\ form.description # None
       /\ form.description[1] # <<>>
       /\ includes(toLowerCase(form.description[1]), term)

\* title.toLowerCase().includes(term.toLowerCase()) ||
\*   (description && description.toLowerCase().includes(term.toLowerCase()))
matchesSearch(form, term) ==
    \/ includes(toLowerCase(form.title), toLowerCase(term))
    \/ /\ form.description # None
       /\ form.description[1] # <<>>
       /\ includes(toLowerCase(form.description[1]), toLowerCase(term))

\* filterTag === 'all' || (form.tags && form.tags.includes(filterTag))
matchesTag(form, tag) ==
    \/ tag = "all"
    \/ /\ form.tags # None
       /\ arrayIncludes(form.tags[1], tag)

\* const filteredForms = forms.filter(...)
filteredForms(fs, term, tag) ==
    LET keep(form) == matchesSearch(form, term) /\ matchesTag(form, tag)
    IN  SelectSeq(fs, keep)

\* A bug the comparator could have: the default mode subtracts the wrong way
\* round.
CompareFormsDefaultOldest(mode, a, b) ==
    CASE mode = "oldest" -> a.created_at - b.created_at
      [] mode = "rating" ->
            RatCompare(averageRating(b.form_fills), averageRating(a.form_fills))
      [] mode = "expiring" ->
            IF a.expire_at = None /\ b.expire_at = None THEN 0
            ELSE IF a.expire_at = None THEN 1
            ELSE IF b.expire_at = None THEN 0 - 1
            ELSE a.expire_at[1] - b.expire_at[1]
      [] OTHER -> a.created_at - b.created_at

\* A bug the comparator could have: a form without an expiry sorts first.
CompareFormsNullFirst(mode, a, b) ==
    CASE mode = "oldest" -> a.created_at - b.created_at
      [] mode = "rating" ->
            RatCompare(averageRating(b.form_fills), averageRating(a.form_fills))
      [] mode = "expiring" ->
            IF a.expire_at = None /\ b.expire_at = None THEN 0
            ELSE IF a.expire_at = None THEN 0 - 1
            ELSE IF b.expire_at = None THEN 1
            ELSE a.expire_at[1] - b.expire_at[1]
      [] OTHER -> b.created_at - a.created_at

\* The comparator of sortedForms.  created_at and expire_at are held as the
\* number new Date(...).getTime() gives for them.
CompareForms(mode, a, b) ==
    CASE mode = "oldest" -> a.created_at - b.created_at
      [] mode = "rating" ->
            RatCompare(averageRating(b.form_fills), averageRating(a.form_fills))
      [] mode = "expiring" ->
            IF a.expire_at = None /\ b.expire_at = None THEN 0
            ELSE IF a.expire_at = None THEN 1
            ELSE IF b.expire_at = None THEN 0 - 1
            ELSE a.expire_at[1] - b.expire_at[1]
      [] OTHER -> b.created_at - a.created_at

\* ------------------------------------------------------------ Array helpers

RECURSIVE SeqsUpTo(_, _)
\* every sequence over S of length at most n
SeqsUpTo(S, n) ==
    IF n = 0 THEN {<<>>}
    ELSE LET shorter == SeqsUpTo(S, n - 1) IN
         shorter \cup {Append(s, x) : s \in {t \in shorter : Len(t) = n - 1}, x \in S}

\* Array.prototype.slice(0, n)
Slice0(s, n) == SubSeq(s, 1, IF Len(s) < n THEN Len(s) ELSE n)

\* (a, b) => b.formsFilled - a.formsFilled
CompareFillers(a, b) == b.formsFilled - a.formsFilled

\* (a, b) => b.formsPosted - a.formsPosted
ComparePosters(a, b) == b.formsPosted - a.formsPosted

\* The compareFn handed to Array.prototype.sort, by the place that hands it.
Compare(compareFn, a, b) ==
    CASE compareFn = "fillers" -> CompareFillers(a, b)
      [] compareFn = "posters" -> ComparePosters(a, b)
      [] OTHER                 -> CompareForms(compareFn, a, b)

\* One insertion of a stable sort: x goes behind every element that the
\* comparator does not order after it.
InsertSorted(x, s, compareFn) ==
    LET after == {i \in 1..Len(s) : Compare(compareFn, s[i], x) > 0}
        p     == IF after = {} THEN Len(s) + 1
                 ELSE CHOOSE i \in after : \A j \in after : i <= j
    IN  SubSeq(s, 1, p - 1) \o <<x>> \o SubSeq(s, p, Len(s))

\* Array.prototype.sort(compareFn): stable (ECMAScript 2019), so with a
\* consistent comparator the result is that of any stable sort; here the
\* elements are inserted one by one in their original order.
ArraySort(s, compareFn) ==
    LET ins[k \in 0..Len(s)] ==
            IF k = 0 THEN <<>> ELSE InsertSorted(s[k], ins[k - 1], compareFn)
    IN  ins[Len(s)]

\* ------------------------------------------------- Feed: what is displayed

\* const sortedForms = [...filteredForms].sort(...)
sortedForms(fs, term, tag, mode) == ArraySort(filteredForms(fs, term, tag), mode)

\* The props of one <FormCard> (lines 229-247).
FormCardProps(form) ==
    [ id            |-> form.id,
      title         |-> form.title,
      description   |-> IF form.description = None THEN <<>> ELSE form.description[1],
      tags          |-> IF form.tags = None THEN <<>> ELSE form.tags[1],
      createdAt     |-> form.created_at,
      expireAt      |-> form.expire_at,
      fillCount     |-> Len(form.form_fills),
      averageRating |-> averageRating(form.form_fills) ]

\* The FormCards of one render: none while the spinner (line 138) or the
\* error card (line 149) is returned instead of the grid.
Render(fs, ld, err, term, mode, tag) ==
    IF ld \/ err # NULL THEN <<>>
    ELSE LET sorted == sortedForms(fs, term, tag, mode)
         IN  [i \in 1..Len(sorted) |-> FormCardProps(sorted[i])]

\* The list view is on screen: its inputs and buttons can be used.
ListShown == page = "feed" /\ ~loading /\ error = NULL

\* const availableTags = [...]
availableTags == <<"all", "survey", "research", "feedback", "academic", "business", "personal">>

\* <SelectItem value=...> of the sort Select
SortModes == {"newest", "oldest", "rating", "expiring"}

\* What the model types into the search box and picks in the tag Select.
SearchTerms == {<<>>, <<"a">>, <<"B">>, <<"a", "B">>}
TagChoices  == {availableTags[i] : i \in 1..3}

\* onChange={(e) => setSearchTerm(e.target.value)}
setSearchTerm ==
    /\ ListShown
    /\ \E term \in SearchTerms :
         /\ term # searchTerm
         /\ searchTerm' = term
         /\ cards' = Render(forms, loading, error, term, sortBy, filterTag)
    /\ UNCHANGED <<forms, loading, error, sortBy, filterTag, feedMounted, feedInv, feedLast, feedWatch, fillPc>>
    /\ UNCHANGED <<routeVars, modalVars, lbVars, toasts, navVars>>

\* onValueChange={setSortBy}
setSortBy ==
    /\ ListShown
    /\ \E mode \in SortModes :
         /\ mode # sortBy
         /\ sortBy' = mode
         /\ cards' = Render(forms, loading, error, searchTerm, mode, filterTag)
    /\ UNCHANGED <<forms, loading, error, searchTerm, filterTag, feedMounted, feedInv, feedLast, feedWatch, fillPc>>
    /\ UNCHANGED <<routeVars, modalVars, lbVars, toasts, navVars>>

\* onValueChange={setFilterTag}
setFilterTag ==
    /\ ListShown
    /\ \E tag \in TagChoices :
         /\ tag # filterTag
         /\ filterTag' = tag
         /\ cards' = Render(forms, loading, error, searchTerm, sortBy, tag)
    /\ UNCHANGED <<forms, loading, error, searchTerm, sortBy, feedMounted, feedInv, feedLast, feedWatch, fillPc>>
    /\ UNCHANGED <<routeVars, modalVars, lbVars, toasts, navVars>>

\* ---- the rows a fetch can have stored

MaxForms == 2
MaxFills == 3

\* fill.rating as FormFillModal writes it (the five star buttons).
RatingValues == 1..5

\* One row of forms with its form_fills and the profile attached to it.
MkForm(id, c) ==
    [ id          |-> id,
      title       |-> c.title,
      description |-> c.description,
      tags        |-> c.tags,
      created_at  |-> c.created_at,
      expire_at   |-> c.expire_at,
      user_id     |-> "u1",
      profiles    |-> [name |-> "Ann"],
      form_fills  |-> c.form_fills ]

\* Rows that differ in what the search and the tag filter read.
TextContents ==
    { [title |-> t, description |-> d, tags |-> g,
       created_at |-> 1, expire_at |-> None, form_fills |-> <<>>] :
        t \in {<<"A", "b">>, <<"b">>},
        d \in {None, Some(<<"a">>)},
        g \in {None, Some(<<"survey">>), Some(<<"research", "survey">>)} }

\* Rows that differ in their fill rows.
RatedContents ==
    { [title |-> <<"A", "b">>, description |-> None, tags |-> Some(<<"survey">>),
       created_at |-> 1, expire_at |-> None,
       form_fills |-> [i \in 1..Len(rs) |-> [rating |-> rs[i]]]] :
        rs \in SeqsUpTo(RatingValues, MaxFills) }

\* Rows that differ in what the sort modes read: two creation times, two
\* expiry times or none, no fills or fills that average 2, 2 and 5.
SortedContents ==
    { [title |-> <<"A", "b">>, description |-> None, tags |-> Some(<<"survey">>),
       created_at |-> c, expire_at |-> e,
       form_fills |-> [i \in 1..Len(rs) |-> [rating |-> rs[i]]]] :
        c \in 1..2, e \in {None, Some(1), Some(2)},
        rs \in {<<>>, <<2>>, <<1, 3>>, <<5>>} }

\* .order('created_at', { ascending: false })
NewestFirst(cs) == \A i \in 1..(Len(cs) - 1) : cs[i].created_at >= cs[i + 1].created_at

\* The forms state after a fetch: rows in the backend's order (created_at
\* descending), with distinct ids.
FetchedForms ==
    { [i \in 1..Len(cs) |-> MkForm(i, cs[i])] : cs \in SeqsUpTo(TextContents, MaxForms) }
    \cup { <<MkForm(1, c)>> : c \in RatedContents }
    \cup { [i \in 1..Len(cs) |-> MkForm(i, cs[i])] :
              cs \in {x \in SeqsUpTo(SortedContents, MaxForms) : NewestFirst(x)} }

InitView ==
    /\ page = "feed"
    /\ LbIdle /\ NavIdle
    /\ toasts = {}
    /\ ModalIdle
    /\ forms \in FetchedForms
    /\ loading = FALSE
    /\ error = NULL
    /\ searchTerm = <<>> /\ sortBy = "newest" /\ filterTag = "all"
    /\ cards = Render(forms, loading, error, searchTerm, sortBy, filterTag)
    /\ feedMounted = TRUE
    /\ feedInv = <<>> /\ feedLast = None /\ feedWatch = 0 /\ fillPc = "idle"

NextView ==
    \/ setSearchTerm
    \/ setSortBy
    \/ setFilterTag

SpecView == InitView /\ [][NextView]_vars

\* ------------------------------------------------- Leaderboard: the ranking

\* .slice(0, 8)
TopN == 8

\* .map((item, index) => ({ ...item, rank: index + 1 }))
WithRanks(s) == [i \in 1..Len(s) |-> [s[i] EXCEPT !.rank = i]]

\* A bug the fillers' ranking could have: the slice is taken before the sort.
sortedFillersSliceFirst(fillersWithNames) ==
    WithRanks(ArraySort(Slice0(fillersWithNames, TopN), "fillers"))

sortedFillers(fillersWithNames) ==
    WithRanks(Slice0(ArraySort(fillersWithNames, "fillers"), TopN))

sortedPosters(postersWithNames) ==
    WithRanks(Slice0(ArraySort(postersWithNames, "posters"), TopN))

\* ---------------------------------------------- Leaderboard: the statistics

\* A bug the aggregation could have: a user's later rows add points but are
\* not counted.
RECURSIVE fillerStatsOfFirstRowCounted(_)
fillerStatsOfFirstRowCounted(rows) ==
    IF rows = <<>> THEN <<>>
    ELSE LET before == fillerStatsOfFirstRowCounted(SubSeq(rows, 1, Len(rows) - 1))
             userId == rows[Len(rows)].user_id
             at     == {i \in 1..Len(before) : before[i].userId = userId}
         IN  IF at = {}
             THEN Append(before, [userId |-> userId, formsFilled |-> 1, points |-> 5, badges |-> 0])
             ELSE [i \in 1..Len(before) |->
                     IF i \in at
                     THEN [before[i] EXCEPT !.points = @ + 5]
                     ELSE before[i]]

\* fillersData.forEach(...): Record<userId, stats>, its keys in insertion order
\* (user ids are UUIDs, so Object.keys keeps the order of first appearance).
RECURSIVE fillerStatsOf(_)
fillerStatsOf(rows) ==
    IF rows = <<>> THEN <<>>
    ELSE LET before == fillerStatsOf(SubSeq(rows, 1, Len(rows) - 1))
             userId == rows[Len(rows)].user_id
             at     == {i \in 1..Len(before) : before[i].userId = userId}
         IN  IF at = {}
             THEN Append(before, [userId |-> userId, formsFilled |-> 1, points |-> 5, badges |-> 0])
             ELSE [i \in 1..Len(before) |->
                     IF i \in at
                     THEN [before[i] EXCEPT !.formsFilled = @ + 1, !.points = @ + 5]
                     ELSE before[i]]

\* postersData.forEach(...)
RECURSIVE posterStatsOf(_)
posterStatsOf(rows) ==
    IF rows = <<>> THEN <<>>
    ELSE LET before == posterStatsOf(SubSeq(rows, 1, Len(rows) - 1))
             userId == rows[Len(rows)].user_id
             at     == {i \in 1..Len(before) : before[i].userId = userId}
         IN  IF at = {}
             THEN Append(before, [userId |-> userId, formsPosted |-> 1,
                                  totalResponses |-> 0, avgRating |-> 0])
             ELSE [i \in 1..Len(before) |->
                     IF i \in at THEN [before[i] EXCEPT !.formsPosted = @ + 1]
                     ELSE before[i]]

\* Object.keys(stats)
KeysOf(stats) == [i \in 1..Len(stats) |-> stats[i].userId]

\* stats[userId]
StatsFor(stats, userId) == stats[CHOOSE i \in 1..Len(stats) : stats[i].userId = userId]

\* responses.filter(r => r.rating !== null)
ratingsWithValues(responses) ==
    LET hasValue(r) == r.rating # None IN SelectSeq(responses, hasValue)

\* ratingsWithValues.reduce((sum, r) => sum + (r.rating || 0), 0)
RECURSIVE SumValues(_)
SumValues(rs) ==
    IF rs = <<>> THEN 0
    ELSE SumValues(SubSeq(rs, 1, Len(rs) - 1)) + rs[Len(rs)].rating[1]

\* Number(x.toFixed(1)) for x = q.num / q.den >= 0: the multiple of 1/10
\* nearest to x, the larger one on a tie.  (toFixed rounds the double that
\* x is, so this is exact whenever a tie x = k/20 is a double itself, which
\* it is when its lowest-terms denominator is 4; the other ties, denominator
\* 20, need twenty or more ratings.)
toFixed1(q) == Rat((20 * q.num + q.den) \div (2 * q.den), 10)

\* A bug the poster's average could have: the sum of the non-null ratings is
\* divided by the number of all rows.
posterRatingsOverAllRows(userForms, responses) ==
    IF userForms # None /\ Len(userForms[1]) > 0
    THEN LET rows   == IF responses = None THEN <<>> ELSE responses[1]
             values == ratingsWithValues(rows)
         IN  [ totalResponses |-> Len(rows),
               avgRating      |-> toFixed1(IF Len(values) > 0
                                           THEN Rat(SumValues(values), Len(rows))
                                           ELSE Rat(0, 1)) ]
    ELSE [totalResponses |-> 0, avgRating |-> toFixed1(Rat(0, 1))]

\* Lines 120-136 and 142-143: totalResponses and avgRating of one poster,
\* from the answers to the forms lookup and to the responses lookup (None
\* where the lookup returned no data or was not made).
posterRatings(userForms, responses) ==
    IF userForms # None /\ Len(userForms[1]) > 0
    THEN LET rows   == IF responses = None THEN <<>> ELSE responses[1]
             values == ratingsWithValues(rows)
         IN  [ totalResponses |-> Len(rows),
               avgRating      |-> toFixed1(IF Len(values) > 0
                                           THEN Rat(SumValues(values), Len(values))
                                           ELSE Rat(0, 1)) ]
    ELSE [totalResponses |-> 0, avgRating |-> toFixed1(Rat(0, 1))]

\* ---- the ranking on its own, over lists long enough to be cut

MaxEntries == 9
MaxCount   == 2

PersonNames == <<"Ann", "Bob", "Cy", "Di", "Ed", "Flo", "Gus", "Hal", "Ida", "Jo", "Kit", "Lu">>

\* What lines 66-72 push for a user with a profile and c fills.
FillerEntry(name, c) ==
    [rank |-> 0, name |-> name, formsFilled |-> c, points |-> 5 * c, badges |-> 0]

\* What lines 138-144 push for a user with a profile and c forms.
PosterEntry(name, c, totalResponses, avgRating) ==
    [rank |-> 0, name |-> name, formsPosted |-> c,
     totalResponses |-> totalResponses, avgRating |-> avgRating]

InitRanking ==
    /\ page = "leaderboard"
    /\ FeedIdle /\ NavIdle
    /\ toasts = {}
    /\ ModalIdle
    /\ topFillers = <<>> /\ topPosters = <<>> /\ lbLoading = TRUE
    /\ lbPc = "rank" /\ lbInflight = {} /\ lbLog = <<>>
    /\ \E counts \in SeqsUpTo(1..MaxCount, MaxEntries) :
         lbLoc = [EmptyLoc EXCEPT
                    !.fillersWithNames =
                        [i \in 1..Len(counts) |-> FillerEntry(PersonNames[i], counts[i])],
                    !.postersWithNames =
                        [i \in 1..Len(counts) |-> PosterEntry(PersonNames[i], counts[i], 0, Rat(0, 1))]]

\* Lines 76-82: sort and rank the fillers, setTopFillers.
RankFillers ==
    /\ lbPc = "rank"
    /\ topFillers' = sortedFillers(lbLoc.fillersWithNames)
    /\ lbPc' = "rankPosters"
    /\ UNCHANGED <<topPosters, lbLoading, lbLoc, lbInflight, lbLog>>
    /\ UNCHANGED <<routeVars, modalVars, feedVars, toasts, navVars>>

\* Lines 148-154 and the finally block: sort and rank the posters, setTopPosters.
RankPosters ==
    /\ lbPc = "rankPosters"
    /\ topPosters' = sortedPosters(lbLoc.postersWithNames)
    /\ lbLoading' = FALSE
    /\ lbPc' = "done"
    /\ UNCHANGED <<topFillers, lbLoc, lbInflight, lbLog>>
    /\ UNCHANGED <<routeVars, modalVars, feedVars, toasts, navVars>>

NextRanking ==
    \/ RankFillers
    \/ RankPosters

SpecRanking == InitRanking /\ [][NextRanking]_vars

\* ------------------------------------------------ Leaderboard: the protocol

UserIds == {"u1", "u2"}

\* profile.name of a user's profiles row.
ProfileName(userId) == IF userId = "u1" THEN "Ann" ELSE "Bob"

MaxRows == 2

\* The rows a select('user_id') can return.
UserIdRows == { [i \in 1..Len(us) |-> [user_id |-> us[i]]] : us \in SeqsUpTo(UserIds, MaxRows) }

\* The answers to a maybeSingle() profile lookup: the row, no row, an error.
ProfileAnswers == {"row", "none", "error"}

\* The answers to the lookup of a user's forms: an error (data is null), or rows.
UserFormsAnswers == {None, Some(<<>>), Some(<<[id |-> "f1"]>>)}

\* A few answers to the lookup of the fill rows of a user's forms.
SomeResponses ==
    { None, Some(<<>>), Some(<<[rating |-> Some(4)]>>),
      Some(<<[rating |-> None], [rating |-> Some(3)], [rating |-> Some(4)]>>) }

Request(kind, userId) == [kind |-> kind, userId |-> userId]

\* A bug the loops could have: every user's lookup is sent at once.
LookupsToIssueAll(queue) == queue

\* for (const userId of ...) { await ... }: the loop sends the lookup of the
\* user it visits, and only that one.
LookupsToIssue(queue) == IF queue = <<>> THEN <<>> ELSE <<Head(queue)>>

\* The requests a loop sends when it (re)starts on queue.
LoopRequests(kind, queue) ==
    LET us == LookupsToIssue(queue) IN [i \in 1..Len(us) |-> Request(kind, us[i])]

Range(seq) == {seq[i] : i \in 1..Len(seq)}

\* useEffect(() => { fetchLeaderboardData(); }, []) up to the first await.
LbMount ==
    /\ page = "leaderboard"
    /\ lbPc = "idle"
    /\ lbLoading' = TRUE
    /\ lbInflight' = {Request("fills", NULL)}
    /\ lbLog' = Append(lbLog, Request("fills", NULL))
    /\ lbPc' = "awaitFills"
    /\ UNCHANGED <<topFillers, topPosters, lbLoc, toasts>>
    /\ UNCHANGED <<routeVars, modalVars, feedVars, navVars>>

\* A bug the catch block could have: the lists are emptied on a failure.
LbCatchClearing(req, loc) ==
    /\ lbLoc' = [loc EXCEPT !.caught = Some(req), !.errors = @ \cup {req}]
    /\ toasts' = toasts \cup {[kind |-> "error", text |-> "Failed to load leaderboard data"]}
    /\ lbLoading' = FALSE
    /\ topFillers' = <<>>
    /\ topPosters' = <<>>
    /\ lbInflight' = lbInflight \ {req}
    /\ lbPc' = "done"
    /\ UNCHANGED <<lbLog>>

\* A bug fetchLeaderboardData could have: no finally block, so a failure
\* leaves loading set.
LbCatchStillLoading(req, loc) ==
    /\ lbLoc' = [loc EXCEPT !.caught = Some(req), !.errors = @ \cup {req}]
    /\ toasts' = toasts \cup {[kind |-> "error", text |-> "Failed to load leaderboard data"]}
    /\ lbInflight' = lbInflight \ {req}
    /\ lbPc' = "done"
    /\ UNCHANGED <<lbLog, topFillers, topPosters, lbLoading>>

\* throw ...; catch: toast.error; finally: setLoading(false).
LbCatch(req, loc) ==
    /\ lbLoc' = [loc EXCEPT !.caught = Some(req), !.errors = @ \cup {req}]
    /\ toasts' = toasts \cup {[kind |-> "error", text |-> "Failed to load leaderboard data"]}
    /\ lbLoading' = FALSE
    /\ lbInflight' = lbInflight \ {req}
    /\ lbPc' = "done"
    /\ UNCHANGED <<lbLog, topFillers, topPosters>>

\* Lines 84-87: the fillers are ranked and stored, the posters query is sent.
LbAfterFillers(req, loc) ==
    /\ topFillers' = sortedFillers(loc.fillersWithNames)
    /\ lbLoc' = loc
    /\ lbInflight' = (lbInflight \ {req}) \cup {Request("posters", NULL)}
    /\ lbLog' = Append(lbLog, Request("posters", NULL))
    /\ lbPc' = "awaitPosters"
    /\ UNCHANGED <<topPosters, lbLoading, toasts>>

\* The fillers loop goes on with loc.queue, or ends.
LbFillersLoop(req, loc) ==
    IF loc.queue = <<>> THEN LbAfterFillers(req, loc)
    ELSE /\ lbLoc' = loc
         /\ lbInflight' = (lbInflight \ {req}) \cup Range(LoopRequests("fillerProfile", loc.queue))
         /\ lbLog' = lbLog \o LoopRequests("fillerProfile", loc.queue)
         /\ lbPc' = "awaitFillerProfile"
         /\ UNCHANGED <<topFillers, topPosters, lbLoading, toasts>>

\* Lines 148-161: the posters are ranked and stored; finally.
LbAfterPosters(req, loc) ==
    /\ topPosters' = sortedPosters(loc.postersWithNames)
    /\ lbLoc' = loc
    /\ lbLoading' = FALSE
    /\ lbInflight' = lbInflight \ {req}
    /\ lbPc' = "done"
    /\ UNCHANGED <<topFillers, lbLog, toasts>>

\* The posters loop goes on with loc.queue, or ends.
LbPostersLoop(req, loc) ==
    IF loc.queue = <<>> THEN LbAfterPosters(req, loc)
    ELSE /\ lbLoc' = loc
         /\ lbInflight' = (lbInflight \ {req}) \cup Range(LoopRequests("posterProfile", loc.queue))
         /\ lbLog' = lbLog \o LoopRequests("posterProfile", loc.queue)
         /\ lbPc' = "awaitPosterProfile"
         /\ UNCHANGED <<topFillers, topPosters, lbLoading, toasts>>

\* Lines 36-63: the answer to the form_fills query.
LbFillsAnswer ==
    /\ lbPc = "awaitFills"
    /\ \E req \in lbInflight :
         /\ req.kind = "fills"
         /\ \/ LbCatch(req, lbLoc)
            \/ \E fillersData \in UserIdRows :
                 LET stats == fillerStatsOf(fillersData) IN
                 LbFillersLoop(req, [lbLoc EXCEPT !.fillersData = fillersData,
                                                 !.fillerStats = stats,
                                                 !.queue = KeysOf(stats)])
    /\ UNCHANGED <<routeVars, modalVars, feedVars, navVars>>

\* Lines 59-74: the answer to a filler's profile lookup.
LbFillerProfileAnswer ==
    /\ lbPc = "awaitFillerProfile"
    /\ \E req \in lbInflight, answer \in ProfileAnswers :
         /\ req.kind = "fillerProfile"
         /\ req.userId = Head(lbLoc.queue)
         /\ LET stats  == StatsFor(lbLoc.fillerStats, req.userId)
                pushed == IF answer = "row"
                          THEN Append(lbLoc.fillersWithNames,
                                      [rank |-> 0, name |-> ProfileName(req.userId),
                                       formsFilled |-> stats.formsFilled,
                                       points |-> stats.points, badges |-> 0])
                          ELSE lbLoc.fillersWithNames
            IN  LbFillersLoop(req, [lbLoc EXCEPT
                                      !.fillersWithNames = pushed,
                                      !.queue = Tail(@),
                                      !.noProfile = IF answer = "row" THEN @ ELSE @ \cup {req},
                                      !.errors = IF answer = "error" THEN @ \cup {req} ELSE @])
    /\ UNCHANGED <<routeVars, modalVars, feedVars, navVars>>

\* Lines 85-111: the answer to the forms query.
LbPostersAnswer ==
    /\ lbPc = "awaitPosters"
    /\ \E req \in lbInflight :
         /\ req.kind = "posters"
         /\ \/ LbCatch(req, lbLoc)
            \/ \E postersData \in UserIdRows :
                 LET stats == posterStatsOf(postersData) IN
                 LbPostersLoop(req, [lbLoc EXCEPT !.posterStats = stats, !.queue = KeysOf(stats)])
    /\ UNCHANGED <<routeVars, modalVars, feedVars, navVars>>

\* Lines 107-118: the answer to a poster's profile lookup.
LbPosterProfileAnswer ==
    /\ lbPc = "awaitPosterProfile"
    /\ \E req \in lbInflight, answer \in ProfileAnswers :
         /\ req.kind = "posterProfile"
         /\ req.userId = Head(lbLoc.queue)
         /\ IF answer = "row"
            THEN /\ lbLoc' = [lbLoc EXCEPT !.profile = Some([name |-> ProfileName(req.userId)]),
                                           !.userForms = None, !.responses = None]
                 /\ lbInflight' = (lbInflight \ {req}) \cup {Request("userForms", req.userId)}
                 /\ lbLog' = Append(lbLog, Request("userForms", req.userId))
                 /\ lbPc' = "awaitUserForms"
                 /\ UNCHANGED <<topFillers, topPosters, lbLoading, toasts>>
            ELSE LbPostersLoop(req, [lbLoc EXCEPT
                                       !.profile = None, !.userForms = None, !.responses = None,
                                       !.queue = Tail(@),
                                       !.noProfile = @ \cup {req},
                                       !.errors = IF answer = "error" THEN @ \cup {req} ELSE @])
    /\ UNCHANGED <<routeVars, modalVars, feedVars, navVars>>

\* Lines 138-146: the entry of the visited poster is pushed and the loop goes on.
LbPushPoster(req, loc) ==
    LET userId == Head(loc.queue)
        stats  == posterRatings(loc.userForms, loc.responses)
        entry  == [rank |-> 0, name |-> loc.profile[1].name,
                   formsPosted |-> StatsFor(loc.posterStats, userId).formsPosted,
                   totalResponses |-> stats.totalResponses,
                   avgRating |-> stats.avgRating]
    IN  LbPostersLoop(req, [loc EXCEPT
                              !.postersWithNames = Append(@, entry),
                              !.fetched = Append(@, [userForms |-> loc.userForms,
                                                     responses |-> loc.responses]),
                              !.queue = Tail(@)])

\* Lines 115-129: the answer to the lookup of the poster's forms.
LbUserFormsAnswer ==
    /\ lbPc = "awaitUserForms"
    /\ \E req \in lbInflight, userForms \in UserFormsAnswers :
         /\ req.kind = "userForms"
         /\ LET loc == [lbLoc EXCEPT !.userForms = userForms,
                                     !.errors = IF userForms = None THEN @ \cup {req} ELSE @]
            IN  IF userForms # None /\ Len(userForms[1]) > 0
                THEN /\ lbLoc' = loc
                     /\ lbInflight' = (lbInflight \ {req}) \cup {Request("responses", req.userId)}
                     /\ lbLog' = Append(lbLog, Request("responses", req.userId))
                     /\ lbPc' = "awaitResponses"
                     /\ UNCHANGED <<topFillers, topPosters, lbLoading, toasts>>
                ELSE LbPushPoster(req, loc)
    /\ UNCHANGED <<routeVars, modalVars, feedVars, navVars>>

\* Lines 126-146: the answer to the lookup of the fill rows of the poster's
\* forms, one of answers.
LbResponsesAnswerFrom(answers) ==
    /\ lbPc = "awaitResponses"
    /\ \E req \in lbInflight, responses \in answers :
         /\ req.kind = "responses"
         /\ LbPushPoster(req, [lbLoc EXCEPT !.responses = responses,
                                            !.errors = IF responses = None THEN @ \cup {req} ELSE @])
    /\ UNCHANGED <<routeVars, modalVars, feedVars, navVars>>

LbResponsesAnswer == LbResponsesAnswerFrom(SomeResponses)

LeaderboardNext ==
    \/ LbMount
    \/ LbFillsAnswer
    \/ LbFillerProfileAnswer
    \/ LbPostersAnswer
    \/ LbPosterProfileAnswer
    \/ LbUserFormsAnswer
    \/ LbResponsesAnswer

\* ---- the statistics on their own, over every answer of up to MaxResponses rows

MaxResponses == 4

\* r.rating: null, or one of the five stars.
RatingCells == {None} \cup {Some(r) : r \in RatingValues}

AllResponses ==
    {None} \cup { Some([i \in 1..Len(rs) |-> [rating |-> rs[i]]]) :
                    rs \in SeqsUpTo(RatingCells, MaxResponses) }

\* fetchLeaderboardData in its posters loop: nobody filled a form, u1 posted
\* one or more forms and has a profile, and the lookup of u1's forms is in
\* flight.
InitStats ==
    /\ page = "leaderboard"
    /\ FeedIdle /\ NavIdle
    /\ toasts = {}
    /\ ModalIdle
    /\ topFillers = <<>> /\ topPosters = <<>> /\ lbLoading = TRUE
    /\ lbPc = "awaitUserForms"
    /\ lbInflight = {Request("userForms", "u1")}
    /\ lbLog = <<Request("fills", NULL), Request("posters", NULL), Request("posterProfile", "u1"),
                 Request("userForms", "u1")>>
    /\ \E postersData \in UserIdRows :
         /\ postersData # <<>>
         /\ \A i \in 1..Len(postersData) : postersData[i].user_id = "u1"
         /\ lbLoc = [EmptyLoc EXCEPT
                       !.posterStats = posterStatsOf(postersData),
                       !.queue = <<"u1">>,
                       !.profile = Some([name |-> ProfileName("u1")])]

LbAllResponsesAnswer == LbResponsesAnswerFrom(AllResponses)

NextStats ==
    \/ LbUserFormsAnswer
    \/ LbAllResponsesAnswer

SpecStats == InitStats /\ [][NextStats]_vars

\* ------------------------------------------------------- Feed: the protocol

MaxInvocations == 2

\* The invocations in flight, by their position in feedInv.
InFlight == DOMAIN feedInv

\* The i-th row the forms query can return, newest first.
FormRow(i) ==
    [ id          |-> i,
      title       |-> IF i = 1 THEN <<"A", "b">> ELSE <<"b">>,
      description |-> IF i = 1 THEN None ELSE Some(<<"a">>),
      tags        |-> IF i = 1 THEN Some(<<"survey">>) ELSE None,
      created_at  |-> MaxRows + 1 - i,
      expire_at   |-> None,
      user_id     |-> IF i = 1 THEN "u1" ELSE "u2",
      form_fills  |-> IF i = 1 THEN <<[rating |-> 4]>> ELSE <<>> ]

\* The data of an answer to the forms query: the newest n rows.
FormsRows == { [i \in 1..n |-> FormRow(i)] : n \in 0..MaxRows }

\* The error of an answer: an Error instance or a plain error object.
FeedErrors == { [isError |-> TRUE,  message |-> "TypeError: Failed to fetch"],
                [isError |-> FALSE, message |-> "permission denied for table forms"] }

\* A bug the catch block could have: only an Error instance gives a message.
CaughtMessageOfErrorsOnly(e) == IF e.isError THEN e.message ELSE NULL

\* error instanceof Error ? error.message : 'Failed to load forms'
CaughtMessage(e) == IF e.isError THEN e.message ELSE "Failed to load forms"

\* { ...form, profiles: profile }
WithProfile(form, profile) ==
    [f \in DOMAIN form \cup {"profiles"} |-> IF f = "profiles" THEN profile ELSE form[f]]

\* Lines 68-93: each row with profile || { name: 'Unknown User' }.
formsWithProfiles(formsData, answers) ==
    [i \in 1..Len(formsData) |->
        WithProfile(formsData[i],
                    IF answers[i] = "row" THEN [name |-> ProfileName(formsData[i].user_id)]
                    ELSE [name |-> "Unknown User"])]

\* Lines 39-52: fetchForms up to its first await.
FetchFormsStart ==
    /\ Len(feedInv) < MaxInvocations
    /\ loading' = TRUE
    /\ error' = NULL
    /\ feedInv' = Append(feedInv, [pc |-> "awaitForms", formsData |-> <<>>, overtaken |-> FALSE])
    /\ cards' = Render(forms, TRUE, NULL, searchTerm, sortBy, filterTag)
    /\ UNCHANGED <<forms, searchTerm, sortBy, filterTag, feedLast, feedWatch>>

\* useEffect(() => { fetchForms(); }, [])
FeedMount ==
    /\ page = "feed"
    /\ ~feedMounted
    /\ feedMounted' = TRUE
    /\ FetchFormsStart
    /\ UNCHANGED <<fillPc, toasts>>
    /\ UNCHANGED <<routeVars, modalVars, lbVars, navVars>>

\* The Try Again button of the error card.
TryAgain ==
    /\ page = "feed"
    /\ ~loading /\ error # NULL
    /\ FetchFormsStart
    /\ UNCHANGED <<feedMounted, fillPc, toasts>>
    /\ UNCHANGED <<routeVars, modalVars, lbVars, navVars>>

\* The Refresh button of the list view.
Refresh ==
    /\ ListShown
    /\ FetchFormsStart
    /\ UNCHANGED <<feedMounted, fillPc, toasts>>
    /\ UNCHANGED <<routeVars, modalVars, lbVars, navVars>>

\* The i-th invocation in flight has finished: it leaves feedInv, and the
\* invocations started before it that are still in flight have been overtaken
\* if it stored its response.
Finished(i, stored) ==
    [j \in 1..(Len(feedInv) - 1) |->
        IF j < i THEN [feedInv[j] EXCEPT !.overtaken = @ \/ stored]
        ELSE feedInv[j + 1]]

\* The place of the followed invocation once the i-th has left feedInv.
WatchAfter(i) ==
    IF feedWatch = i THEN -1
    ELSE IF feedWatch > i THEN feedWatch - 1
    ELSE feedWatch

\* A bug fetchForms could have (or a guard it could be given): the response of
\* an invocation that a later one has overtaken is dropped.
ApplyResponseUnlessStale(i, data) == IF feedInv[i].overtaken THEN forms ELSE data

\* setForms(data) by the i-th invocation in flight: the new forms state.
ApplyResponse(i, data) == data

\* A bug fetchForms could have: the error is reset when a response is stored
\* rather than when the invocation starts.
FeedStoreClearingError(i, data, errors) ==
    /\ forms' = ApplyResponse(i, data)
    /\ loading' = FALSE
    /\ error' = NULL
    /\ feedInv' = Finished(i, TRUE)
    /\ feedWatch' = WatchAfter(i)
    /\ feedLast' = Some([outcome |-> "stored", data |-> Some(data),
                         stale |-> feedInv[i].overtaken, errors |-> errors])
    /\ cards' = Render(forms', FALSE, NULL, searchTerm, sortBy, filterTag)
    /\ UNCHANGED <<searchTerm, sortBy, filterTag>>

\* setForms(data); finally: setLoading(false).
FeedStore(i, data, errors) ==
    /\ forms' = ApplyResponse(i, data)
    /\ loading' = FALSE
    /\ feedInv' = Finished(i, TRUE)
    /\ feedWatch' = WatchAfter(i)
    /\ feedLast' = Some([outcome |-> "stored", data |-> Some(data),
                         stale |-> feedInv[i].overtaken, errors |-> errors])
    /\ cards' = Render(forms', FALSE, error, searchTerm, sortBy, filterTag)
    /\ UNCHANGED <<error, searchTerm, sortBy, filterTag>>

\* A bug the catch block could have: the list is emptied on a failure.
FeedCatchClearing(i, formsError) ==
    /\ error' = CaughtMessage(formsError)
    /\ loading' = FALSE
    /\ forms' = <<>>
    /\ feedInv' = Finished(i, FALSE)
    /\ feedWatch' = WatchAfter(i)
    /\ feedLast' = Some([outcome |-> "caught", data |-> None,
                         stale |-> feedInv[i].overtaken, errors |-> {"forms"}])
    /\ cards' = Render(forms', FALSE, error', searchTerm, sortBy, filterTag)
    /\ UNCHANGED <<searchTerm, sortBy, filterTag>>

\* Lines 56 and 97-102: throw formsError; catch: setError(...); finally:
\* setLoading(false).
FeedCatch(i, formsError) ==
    /\ error' = CaughtMessage(formsError)
    /\ loading' = FALSE
    /\ feedInv' = Finished(i, FALSE)
    /\ feedWatch' = WatchAfter(i)
    /\ feedLast' = Some([outcome |-> "caught", data |-> None,
                         stale |-> feedInv[i].overtaken, errors |-> {"forms"}])
    /\ cards' = Render(forms, FALSE, error', searchTerm, sortBy, filterTag)
    /\ UNCHANGED <<forms, searchTerm, sortBy, filterTag>>

\* Lines 46-65: the answer to the forms query.
FormsAnswerOf(i) ==
    /\ i \in InFlight
    /\ feedInv[i].pc = "awaitForms"
    /\ \/ \E formsError \in FeedErrors : FeedCatch(i, formsError)
       \/ \E formsData \in FormsRows :
            IF formsData = <<>>
            THEN FeedStore(i, <<>>, {})
            ELSE /\ feedInv' = [feedInv EXCEPT ![i].pc = "awaitProfiles",
                                               ![i].formsData = formsData]
                 /\ UNCHANGED <<forms, loading, error, searchTerm, sortBy, filterTag,
                                cards, feedLast, feedWatch>>
    /\ UNCHANGED <<feedMounted, fillPc, toasts>>
    /\ UNCHANGED <<routeVars, modalVars, lbVars, navVars>>

FormsAnswer == \E i \in InFlight : FormsAnswerOf(i)

\* Lines 68-96: Promise.all has resolved.  Each profile lookup only produces
\* its row's profile (an error is logged with console.warn), so the lookups
\* are delivered together, as the vector of their answers.
ProfilesAnswerOf(i) ==
    /\ i \in InFlight
    /\ feedInv[i].pc = "awaitProfiles"
    /\ \E answers \in [1..Len(feedInv[i].formsData) -> ProfileAnswers] :
         FeedStore(i, formsWithProfiles(feedInv[i].formsData, answers),
                   IF \E k \in DOMAIN answers : answers[k] = "error" THEN {"profile"} ELSE {})
    /\ UNCHANGED <<feedMounted, fillPc, toasts>>
    /\ UNCHANGED <<routeVars, modalVars, lbVars, navVars>>

ProfilesAnswer == \E i \in InFlight : ProfilesAnswerOf(i)

\* FormFillModal.handleSubmit of a displayed card's modal, with a user logged
\* in and a rating chosen, up to its await: the insert is sent.
handleSubmit ==
    /\ ListShown
    /\ Len(cards) > 0
    /\ fillPc = "idle"
    /\ fillPc' = "inserting"
    /\ UNCHANGED <<forms, loading, error, searchTerm, sortBy, filterTag, cards,
                   feedMounted, feedInv, feedLast, feedWatch, toasts>>
    /\ UNCHANGED <<routeVars, modalVars, lbVars, navVars>>

\* Lines 441-444: the insert succeeded: toast.success, onFormFilled(), which
\* is the Feed's fetchForms (Feed.tsx line 245).
InsertSaved ==
    /\ fillPc = "inserting"
    /\ fillPc' = "idle"
    /\ toasts' = toasts \cup {[kind |-> "success", text |-> "Thank you for your feedback!"]}
    /\ FetchFormsStart
    /\ UNCHANGED <<feedMounted>>
    /\ UNCHANGED <<routeVars, modalVars, lbVars, navVars>>

\* Lines 436-439 and 449-454: the insert failed with the message 'permission
\* denied': toast.error.
InsertFailed ==
    /\ fillPc = "inserting"
    /\ fillPc' = "idle"
    /\ toasts' = toasts \cup {[kind |-> "error", text |-> "Failed to submit feedback: permission denied"]}
    /\ UNCHANGED <<forms, loading, error, searchTerm, sortBy, filterTag, cards,
                   feedMounted, feedInv, feedLast, feedWatch>>
    /\ UNCHANGED <<routeVars, modalVars, lbVars, navVars>>

FeedNext ==
    \/ FeedMount
    \/ TryAgain
    \/ Refresh
    \/ FormsAnswer
    \/ ProfilesAnswer
    \/ handleSubmit
    \/ InsertSaved
    \/ InsertFailed

\* ----------------------------------------------------------- the routed page

\* The router renders the Feed or the Leaderboard in the Layout's Outlet.
Init ==
    /\ page \in {"feed", "leaderboard"}
    /\ forms = <<>> /\ loading = TRUE /\ error = NULL
    /\ searchTerm = <<>> /\ sortBy = "newest" /\ filterTag = "all"
    /\ cards = <<>> /\ feedMounted = FALSE
    /\ feedInv = <<>>
    /\ feedLast = None /\ feedWatch = 0 /\ fillPc = "idle"
    /\ LbIdle /\ NavIdle
    /\ toasts = {}
    /\ ModalIdle

Next ==
    \/ FeedNext
    \/ LeaderboardNext

Spec == Init /\ [][Next]_vars

InitNav ==
    /\ page = "none"
    /\ FeedIdle /\ LbIdle
    /\ toasts = {}
    /\ ModalIdle
    /\ navPhase = "unmounted"
    /\ isDarkMode = FALSE
    /\ lsDarkMode \in StoredValues
    /\ darkClass = FALSE
    /\ lastToggled = "none"
    /\ user \in {NULL, "u1"}
    /\ location = "/"
    /\ logoutPc = "idle"

NextNav ==
    \/ NavMount
    \/ NavInitEffect
    \/ toggleDarkMode
    \/ NavUnmount
    \/ PageReload
    \/ ClickLink
    \/ handleLogout
    \/ LogoutResolved
    \/ LogoutRejected

SpecNav == InitNav /\ [][NextNav]_vars

\* ------------------------------------------------------------ FormFillModal

\* What the model types into the comment box.
Comments == {<<>>, <<" ">>, <<"o", "k">>, <<" ", "o", "k", " ">>}

\* String.prototype.trim
RECURSIVE trim(_)
trim(str) ==
    IF str = <<>> THEN <<>>
    ELSE IF Head(str) = " " THEN trim(Tail(str))
    ELSE IF str[Len(str)] = " " THEN trim(SubSeq(str, 1, Len(str) - 1))
    ELSE str

\* comment.trim() || null
CommentValue(c) == IF trim(c) = <<>> THEN None ELSE Some(trim(c))

\* A call the modal makes: toast.error(text), onClose(), ...
Call(fn, arg) == [fn |-> fn, arg |-> arg]

Toast(kind, text) == [kind |-> kind, text |-> text]

\* The row handleSubmit inserts (lines 428-433).
FillRow == [form_id |-> "f1", user_id |-> user, rating |-> rating,
            comment |-> CommentValue(comment)]

\* A bug handleSubmit could have: the rating is not checked.
handleSubmitRunUnrated ==
    IF user = NULL
    THEN /\ toasts' = toasts \cup {Toast("error", "Please log in to fill forms")}
         /\ modalCalls' = <<Call("toast.error", "Please log in to fill forms")>>
         /\ UNCHANGED <<isOpen, rating, comment, isSubmitting, inserts>>
    ELSE /\ isSubmitting' = TRUE
         /\ inserts' = Append(inserts, FillRow)
         /\ modalCalls' = <<>>
         /\ UNCHANGED <<isOpen, rating, comment, toasts>>

\* Lines 406-434: handleSubmit up to its await.
handleSubmitRun ==
    IF user = NULL
    THEN /\ toasts' = toasts \cup {Toast("error", "Please log in to fill forms")}
         /\ modalCalls' = <<Call("toast.error", "Please log in to fill forms")>>
         /\ UNCHANGED <<isOpen, rating, comment, isSubmitting, inserts>>
    ELSE IF rating = 0
    THEN /\ toasts' = toasts \cup {Toast("error", "Please provide a rating")}
         /\ modalCalls' = <<Call("toast.error", "Please provide a rating")>>
         /\ UNCHANGED <<isOpen, rating, comment, isSubmitting, inserts>>
    ELSE /\ isSubmitting' = TRUE
         /\ inserts' = Append(inserts, FillRow)
         /\ modalCalls' = <<>>
         /\ UNCHANGED <<isOpen, rating, comment, toasts>>

\* A bug the submit button could have: it is disabled by the rating alone.
SubmitEnabledWhileSubmitting == rating # 0

\* disabled={rating === 0 || isSubmitting} (line 580)
SubmitEnabled == ~(rating = 0 \/ isSubmitting)

\* The Submit Rating button: the form's submit event runs handleSubmit.
SubmitClick ==
    /\ isOpen
    /\ SubmitEnabled
    /\ handleSubmitRun
    /\ UNCHANGED <<routeVars, feedVars, lbVars, navVars>>

\* handleSubmit called on an open modal that is not submitting, whatever its
\* rating.
CallHandleSubmit ==
    /\ isOpen
    /\ ~isSubmitting
    /\ handleSubmitRun
    /\ UNCHANGED <<routeVars, feedVars, lbVars, navVars>>

\* Lines 442-444: the calls after a saved insert.
ModalInsertCalls == <<Call("toast.success", "Thank you for your feedback!"),
                      Call("onFormFilled", NULL), Call("onClose", NULL)>>

\* Lines 441-448 and 452-454: the insert was saved.
ModalInsertSaved ==
    /\ \E k \in 1..Len(inserts) :
         inserts' = SubSeq(inserts, 1, k - 1) \o SubSeq(inserts, k + 1, Len(inserts))
    /\ toasts' = toasts \cup {Toast("success", "Thank you for your feedback!")}
    /\ modalCalls' = ModalInsertCalls
    /\ isOpen' = FALSE
    /\ rating' = 0
    /\ comment' = <<>>
    /\ isSubmitting' = FALSE
    /\ UNCHANGED <<routeVars, feedVars, lbVars, navVars>>

\* A bug the catch block could have: the form is reset on a failure too.
ModalInsertFailedResetting ==
    /\ \E k \in 1..Len(inserts) :
         inserts' = SubSeq(inserts, 1, k - 1) \o SubSeq(inserts, k + 1, Len(inserts))
    /\ toasts' = toasts \cup {Toast("error", "Failed to submit feedback: permission denied")}
    /\ modalCalls' = <<Call("toast.error", "Failed to submit feedback: permission denied")>>
    /\ isSubmitting' = FALSE
    /\ rating' = 0
    /\ comment' = <<>>
    /\ UNCHANGED <<isOpen>>
    /\ UNCHANGED <<routeVars, feedVars, lbVars, navVars>>

\* Lines 436-439 and 449-454: the insert failed with the message 'permission
\* denied'.
ModalInsertFailed ==
    /\ \E k \in 1..Len(inserts) :
         inserts' = SubSeq(inserts, 1, k - 1) \o SubSeq(inserts, k + 1, Len(inserts))
    /\ toasts' = toasts \cup {Toast("error", "Failed to submit feedback: permission denied")}
    /\ modalCalls' = <<Call("toast.error", "Failed to submit feedback: permission denied")>>
    /\ isSubmitting' = FALSE
    /\ UNCHANGED <<isOpen, rating, comment>>
    /\ UNCHANGED <<routeVars, feedVars, lbVars, navVars>>

\* Lines 402-404: a star button.
handleRatingClick ==
    /\ isOpen
    /\ \E value \in RatingValues : rating' = value
    /\ modalCalls' = <<>>
    /\ UNCHANGED <<isOpen, comment, isSubmitting, inserts, toasts>>
    /\ UNCHANGED <<routeVars, feedVars, lbVars, navVars>>

\* onChange={(e) => setComment(e.target.value)}
setComment ==
    /\ isOpen
    /\ \E text \in Comments : comment' = text
    /\ modalCalls' = <<>>
    /\ UNCHANGED <<isOpen, rating, isSubmitting, inserts, toasts>>
    /\ UNCHANGED <<routeVars, feedVars, lbVars, navVars>>

\* Lines 493-497: handleClose, by the Dialog's onOpenChange (Escape, the
\* overlay, the close button) at any time or by the Cancel button, which is
\* disabled while isSubmitting.
handleClose ==
    /\ isOpen
    /\ rating' = 0
    /\ comment' = <<>>
    /\ isOpen' = FALSE
    /\ modalCalls' = <<Call("onClose", NULL)>>
    /\ UNCHANGED <<isSubmitting, inserts, toasts>>
    /\ UNCHANGED <<routeVars, feedVars, lbVars, navVars>>

\* The parent renders the modal with isOpen = true.
ModalOpen ==
    /\ ~isOpen
    /\ isOpen' = TRUE
    /\ modalCalls' = <<>>
    /\ UNCHANGED <<rating, comment, isSubmitting, inserts, toasts>>
    /\ UNCHANGED <<routeVars, feedVars, lbVars, navVars>>

\* A mounted, closed modal; a user is logged in or not.
InitModal ==
    /\ page = "none"
    /\ FeedIdle /\ LbIdle
    /\ toasts = {}
    /\ navPhase = "unmounted" /\ isDarkMode = FALSE /\ lsDarkMode = NULL
    /\ darkClass = FALSE /\ lastToggled = "none"
    /\ user \in {NULL, "u1"} /\ location = "/" /\ logoutPc = "idle"
    /\ ModalIdle

NextModal ==
    \/ ModalOpen
    \/ handleRatingClick
    \/ setComment
    \/ SubmitClick
    \/ ModalInsertSaved
    \/ ModalInsertFailed
    \/ handleClose

SpecModal == InitModal /\ [][NextModal]_vars

\* ---- handleSubmit on its own, from every rating, comment and user

InitHandler ==
    /\ page = "none"
    /\ FeedIdle /\ LbIdle
    /\ toasts = {}
    /\ navPhase = "unmounted" /\ isDarkMode = FALSE /\ lsDarkMode = NULL
    /\ darkClass = FALSE /\ lastToggled = "none"
    /\ user \in {NULL, "u1"} /\ location = "/" /\ logoutPc = "idle"
    /\ isOpen = TRUE
    /\ rating \in 0..5
    /\ comment \in Comments
    /\ isSubmitting = FALSE /\ inserts = <<>> /\ modalCalls = <<>>

NextHandler ==
    \/ CallHandleSubmit
    \/ ModalInsertSaved
    \/ ModalInsertFailed

SpecHandler == InitHandler /\ [][NextHandler]_vars

\* ---- every page and the modal, with a backend that answers every request

\* The observer starts to follow one of the invocations of fetchForms in
\* flight; it follows one invocation in a behaviour.
WatchInvocation ==
    /\ feedWatch = 0
    /\ \E i \in InFlight : feedWatch' = i
    /\ UNCHANGED <<forms, loading, error, searchTerm, sortBy, filterTag, cards,
                   feedMounted, feedInv, feedLast, fillPc>>
    /\ UNCHANGED <<routeVars, modalVars, lbVars, navVars, toasts>>

\* The modal on its own, as in SpecModal.
ModalNextLive ==
    /\ page = "none"
    /\ NextModal

InitLive ==
    \/ Init
    \/ InitModal

NextLive ==
    \/ FeedNext
    \/ LeaderboardNext
    \/ ModalNextLive
    \/ WatchInvocation

\* The i-th invocation in flight awaits the answers to its profile lookups:
\* the states in which ProfilesAnswerOf(i) is enabled.
AwaitsProfiles(i) == i \in InFlight /\ feedInv[i].pc = "awaitProfiles"

\* Weak fairness of ProfilesAnswerOf(i), WF_vars(ProfilesAnswerOf(i)), with
\* ENABLED written as the state predicate it amounts to.
ProfilesAnswered(i) ==
    []<>(~AwaitsProfiles(i)) \/ []<><<ProfilesAnswerOf(i)>>_vars

\* The backend answers every request: each await of fetchForms (of the
\* invocation at each place of feedInv), of fetchLeaderboardData and of
\* handleSubmit is resumed at last, with a result or with an error.  Nothing is
\* assumed of the user: no button is ever bound to be clicked.
BackendAnswers ==
    /\ \A i \in 1..MaxInvocations : WF_vars(FormsAnswerOf(i)) /\ ProfilesAnswered(i)
    /\ WF_vars(LbFillsAnswer \/ LbFillerProfileAnswer \/ LbPostersAnswer
                 \/ LbPosterProfileAnswer \/ LbUserFormsAnswer \/ LbResponsesAnswer)
    /\ WF_vars(ModalInsertSaved \/ ModalInsertFailed)

SpecLive == InitLive /\ [][NextLive]_vars /\ BackendAnswers

\* C8: once a mounted Navigation has run its initialisation effect, isDarkMode
\* is true exactly when localStorage 'darkMode' is 'true' and exactly when the
\* document root carries the 'dark' class; and once a toggle has happened,
\* isDarkMode is the last toggled value, also after any remount or reload.
C8_DarkModePersisted ==
    navPhase = "ready" =>
        /\ isDarkMode <=> (lsDarkMode = "true")
        /\ isDarkMode <=> darkClass
        /\ lastToggled # "none" => BoolToString(isDarkMode) = lastToggled

\* A remounted Navigation shows dark mode: the value came from localStorage.
C8_Witness ==
    /\ navPhase = "ready"
    /\ lastToggled = "true"
    /\ isDarkMode
    /\ lsDarkMode = "true"
    /\ darkClass
    /\ toasts # {}

\* ------------------------------------------------------- C9: the rankings

\* top is a ranking of input by the field count: at most TopN entries, ranked 1..n in
\* list order, in non-increasing order of count, every entry one of the input,
\* and no input entry that is left out has a larger count than a listed one.
IsRanking(top, input, count) ==
    /\ Len(top) <= TopN
    /\ \A i \in 1..Len(top) : top[i].rank = i
    /\ \A i \in 1..Len(top) - 1 : top[i][count] >= top[i + 1][count]
    /\ \A i \in 1..Len(top) : \E j \in 1..Len(input) :
            input[j].name = top[i].name /\ input[j][count] = top[i][count]
    /\ \A j \in 1..Len(input) :
            (\A i \in 1..Len(top) : top[i].name # input[j].name)
                => \A i \in 1..Len(top) : input[j][count] <= top[i][count]

\* C9: once fetchLeaderboardData has set topFillers (and, at its end,
\* topPosters), each holds at most 8 entries ranked 1..n in list order, in
\* non-increasing order of formsFilled (formsPosted), and no user with a
\* profile who is left out has a strictly larger count than a listed user.
C9_TopListsRanked ==
    /\ lbPc \in {"rankPosters", "done"} =>
          IsRanking(topFillers, lbLoc.fillersWithNames, "formsFilled")
    /\ lbPc = "done" =>
          IsRanking(topPosters, lbLoc.postersWithNames, "formsPosted")

\* Nine users with profiles: the ninth has more fills than the first, so the
\* sort moves it into the list and the slice drops a user with fewer.
C9_Witness ==
    /\ lbPc = "done"
    /\ Len(lbLoc.fillersWithNames) > TopN
    /\ Len(topFillers) = TopN
    /\ Len(topPosters) = TopN
    /\ lbLoc.fillersWithNames[1].formsFilled < lbLoc.fillersWithNames[TopN + 1].formsFilled
    /\ \E i \in 1..TopN : topFillers[i].name = lbLoc.fillersWithNames[TopN + 1].name
    /\ \E j \in 1..TopN : \A i \in 1..TopN : topFillers[i].name # lbLoc.fillersWithNames[j].name

\* ------------------------------------------------- C1: the displayed average

\* The fetched form a card was rendered from.
FormOfCard(card) == CHOOSE f \in {forms[k] : k \in 1..Len(forms)} : f.id = card.id

\* The total of the ratings, counted rating by rating.
RECURSIVE RatingTotal(_, _)
RatingTotal(fills, r) ==
    IF r = 0 THEN 0
    ELSE r * Cardinality({k \in 1..Len(fills) : fills[k].rating = r})
         + RatingTotal(fills, r - 1)

\* C1: every displayed card's fill count is the number of fill rows fetched
\* for its form, and its average rating is the sum of their ratings divided by
\* their number, 0 when there are none.
C1_AverageIsMean ==
    \A i \in 1..Len(cards) :
        LET fills == FormOfCard(cards[i]).form_fills
            avg   == cards[i].averageRating
        IN  /\ cards[i].fillCount = Len(fills)
            /\ avg.den > 0
            /\ IF Len(fills) = 0 THEN avg.num = 0
               ELSE avg.num * Len(fills) = RatingTotal(fills, 5) * avg.den

\* A card whose three fill rows average 7/3.
C1_Witness ==
    \E i \in 1..Len(cards) :
        /\ cards[i].fillCount = 3
        /\ cards[i].averageRating = [num |-> 7, den |-> 3]
        /\ sortBy = "rating"

\* ------------------------------------------------- C10: the displayed forms

SameLetter(c, d) == c = d \/ {c, d} = {"a", "A"} \/ {c, d} = {"b", "B"}

\* text contains term, letter case ignored.
ContainsIgnoringCase(text, term) ==
    \E k \in 0..(Len(text) - Len(term)) :
        \A j \in 1..Len(term) : SameLetter(text[k + j], term[j])

\* The form is one the search term and the selected tag ask for.
Wanted(f) ==
    /\ \/ ContainsIgnoringCase(f.title, searchTerm)
       \/ f.description # None /\ ContainsIgnoringCase(f.description[1], searchTerm)
    /\ \/ filterTag = "all"
       \/ f.tags # None /\ \E t \in 1..Len(f.tags[1]) : f.tags[1][t] = filterTag

\* C10: while the list view shows, the displayed cards are a permutation of
\* exactly the fetched forms that the search term and the selected tag ask
\* for: each such form is shown once, nothing else is shown, and with an
\* empty search term and tag 'all' every fetched form is shown.
C10_DisplayedArePermutationOfWanted ==
    ListShown =>
        /\ \A k \in 1..Len(forms) :
              Cardinality({i \in 1..Len(cards) : cards[i].id = forms[k].id})
                 = IF Wanted(forms[k]) THEN 1 ELSE 0
        /\ \A i \in 1..Len(cards) : \E k \in 1..Len(forms) :
              /\ cards[i].id = forms[k].id
              /\ cards[i].title = forms[k].title
        /\ (searchTerm = <<>> /\ filterTag = "all") => Len(cards) = Len(forms)

\* Two fetched forms, one shown (its title matches in another letter case and
\* it carries the tag) and one filtered out, under a sort other than the default.
C10_Witness ==
    /\ ListShown
    /\ Len(forms) = 2
    /\ Len(cards) = 1
    /\ searchTerm = <<"a", "B">>
    /\ filterTag = "survey"
    /\ sortBy = "oldest"
    /\ cards[1].title = <<"A", "b">>

\* ------------------------------------------------- C2: the posters' statistics

\* The total of the non-null ratings, counted rating by rating.
RECURSIVE ValueTotal(_, _)
ValueTotal(rows, r) ==
    IF r = 0 THEN 0
    ELSE r * Cardinality({k \in 1..Len(rows) : rows[k].rating = Some(r)})
         + ValueTotal(rows, r - 1)

Abs(x) == IF x < 0 THEN 0 - x ELSE x

\* The entry p states what the claim says of the rows fetched for its user.
StatsAsClaimed(p, f) ==
    LET rows  == IF f.userForms = None \/ f.responses = None THEN <<>> ELSE f.responses[1]
        n     == Cardinality({k \in 1..Len(rows) : rows[k].rating # None})
        total == ValueTotal(rows, 5)
        avg   == p.avgRating
    IN  /\ p.totalResponses = Len(rows)
        /\ avg.den > 0
        /\ IF f.userForms = None \/ f.userForms[1] = <<>> \/ n = 0 THEN avg.num = 0
           ELSE \* avg = t / 10 for an integer t, and no other multiple of 1/10 is
                \* nearer to total / n
                /\ (10 * avg.num) % avg.den = 0
                /\ LET t == (10 * avg.num) \div avg.den
                   IN  2 * Abs(t * n - 10 * total) <= n

\* C2: for every poster listed after a successful fetchLeaderboardData,
\* totalResponses is the number of fill rows fetched for that user's forms and
\* avgRating is the mean of the non-null ratings among them rounded to one
\* decimal place, 0 when the user has no forms or no non-null rating.
C2_PosterStatsAreMeans ==
    (lbPc = "done" /\ lbLoc.caught = None) =>
        \A k \in 1..Len(topPosters) :
            \E i \in 1..Len(lbLoc.postersWithNames) :
                /\ lbLoc.postersWithNames[i].name = topPosters[k].name
                /\ StatsAsClaimed(topPosters[k], lbLoc.fetched[i])

\* A listed poster with four fill rows, one of them without a rating, whose
\* three ratings average 4/3, shown as 1.3.
C2_Witness ==
    /\ lbPc = "done"
    /\ lbLoc.caught = None
    /\ Len(topPosters) = 1
    /\ topPosters[1].totalResponses = 4
    /\ topPosters[1].avgRating = [num |-> 13, den |-> 10]
    /\ \E k \in 1..4 : lbLoc.fetched[1].responses[1][k].rating = None

\* ------------------------------------------- C3: which errors are surfaced

\* A fetchForms invocation finishes in this step.
InvocationFinishes == Len(feedInv') < Len(feedInv)

LoadErrorToast == [kind |-> "error", text |-> "Failed to load leaderboard data"]

\* The requests of fetchLeaderboardData that are not per-user lookups.
TopLevelKinds == {"fills", "posters"}

\* C3 as stated: whenever a request of a finished fetchForms or
\* fetchLeaderboardData has failed, be it the forms query, the fills query or a
\* per-user lookup, the user sees an error state or an error notification.
C3_EveryErrorSurfaced ==
    /\ (feedInv = <<>> /\ feedLast # None /\ feedLast[1].errors # {}) => error # NULL
    /\ (lbPc = "done" /\ lbLoc.errors # {}) => LoadErrorToast \in toasts

\* C3, amended: an error of the Feed's forms query ends the invocation in the
\* error state, and an invocation whose only errors are profile lookups leaves
\* the error state as it was; a finished fetchLeaderboardData has shown its
\* error toast exactly when its form_fills query or its forms query failed,
\* whatever its per-user lookups answered.
C3_TopLevelErrorsSurfaced ==
    [][ /\ InvocationFinishes =>
              IF "forms" \in feedLast'[1].errors
              THEN error' # NULL /\ ~loading'
              ELSE error' = error
        /\ (lbPc # "done" /\ lbPc' = "done") =>
              /\ (LoadErrorToast \in toasts') <=>
                     (\E req \in lbLoc'.errors : req.kind \in TopLevelKinds)
              /\ (\E req \in lbLoc'.errors : req.kind \in TopLevelKinds) <=>
                     (lbLoc'.caught # None)
      ]_vars

\* fetchLeaderboardData has ended with its toast after the forms query failed,
\* and before that a filler's profile lookup had failed without any effect.
C3_Witness ==
    /\ lbPc = "done"
    /\ Request("posters", NULL) \in lbLoc.errors
    /\ \E req \in lbLoc.errors : req.kind = "fillerProfile"
    /\ LoadErrorToast \in toasts
    /\ lbLoading = FALSE

\* --------------------------------------------- C4: a failed forms query

C5_OnlyTryAgainClearsError ==
    [][ (error # NULL /\ error' = NULL) => TryAgain ]_vars

\* C5, amended: the error state is left only by the start of a fetchForms
\* invocation, which sets loading and sends the forms query: by the Try Again
\* button, or by onFormFilled of a rating submission that was in flight; never
\* by a response.  An invocation that stores its response sets loading to
\* false and forms to the fetched rows, and leaves error as it is.
C5_ErrorLeftOnlyByAStart ==
    [][ /\ (error # NULL /\ error' = NULL) =>
              /\ TryAgain \/ InsertSaved
              /\ loading'
              /\ Len(feedInv') = Len(feedInv) + 1
              /\ feedInv'[Len(feedInv')].pc = "awaitForms"
        /\ TryAgain => (error' = NULL /\ loading')
        /\ (InvocationFinishes /\ feedLast'[1].outcome = "stored") =>
              /\ loading' = FALSE
              /\ forms' = feedLast'[1].data[1]
              /\ error' = error
      ]_vars

\* Try Again has just been pressed: the last finished invocation failed, no
\* rating was ever submitted, and now the error is gone, the spinner shows and
\* one forms query is in flight.
C5_Witness ==
    /\ feedLast # None
    /\ feedLast[1].outcome = "caught"
    /\ error = NULL
    /\ loading
    /\ Len(feedInv) = 1
    /\ feedInv[1].pc = "awaitForms"
    /\ fillPc = "idle"
    /\ toasts = {}

\* --------------------------------------- C6: the lookups, one after another

\* The lookups of the posters loop.
PosterLookupKinds == {"posterProfile", "userForms", "responses"}

\* C6: at most one request of fetchLeaderboardData is in flight, and it is
\* the one sent last; in each loop the lookups of one user are sent next to
\* each other, none of another user in between.
C6_LookupsSequential ==
    /\ Cardinality(lbInflight) <= 1
    /\ \A req \in lbInflight : lbLog # <<>> /\ req = lbLog[Len(lbLog)]
    /\ \A i, j, k \in 1..Len(lbLog) :
         (/\ i < j /\ j < k
          /\ lbLog[i].kind \in PosterLookupKinds
          /\ lbLog[k].kind \in PosterLookupKinds
          /\ lbLog[i].userId = lbLog[k].userId)
         => lbLog[j].userId = lbLog[i].userId

\* The responses lookup of the first poster is in flight; the second poster
\* is still to be visited.
C6_Witness ==
    /\ lbPc = "awaitResponses"
    /\ Len(lbLoc.queue) = 2
    /\ lbInflight = {Request("responses", Head(lbLoc.queue))}

\* ------------------------------------------------ C7: the last arrival wins

\* C7: whenever the invocation that finished last stored its response, forms
\* is that response, whichever invocation was started last: also when an
\* invocation started later had stored its own response before (stale).
C7_LastArrivalWins ==
    (feedLast # None /\ feedLast[1].outcome = "stored") => forms = feedLast[1].data[1]

\* Two invocations overlapped and both have finished; the one started first
\* answered last, with rows, and forms holds its rows.
C7_Witness ==
    /\ feedInv = <<>>
    /\ feedLast # None
    /\ feedLast[1].outcome = "stored"
    /\ feedLast[1].stale
    /\ feedLast[1].data[1] # <<>>
    /\ forms = feedLast[1].data[1]

\* ------------------------------------------------ C11: the order displayed

\* The place of the card's form among the fetched forms.
FetchedPos(card) == CHOOSE k \in 1..Len(forms) : forms[k].id = card.id

\* The average rating of the card's form as the quotient total / number, the
\* number taken as 1 when there is no fill (so the quotient is 0).
MeanNum(card) == RatingTotal(FormOfCard(card).form_fills, 5)
MeanDen(card) == IF FormOfCard(card).form_fills = <<>> THEN 1
                 ELSE Len(FormOfCard(card).form_fills)

\* c is displayed no later than d under the selected mode; 0 on a tie.
ModeOrder(c, d) ==
    CASE sortBy = "oldest" -> FormOfCard(d).created_at - FormOfCard(c).created_at
      [] sortBy = "rating" -> MeanNum(c) * MeanDen(d) - MeanNum(d) * MeanDen(c)
      [] OTHER             -> FormOfCard(c).created_at - FormOfCard(d).created_at

\* C11: under 'newest' the displayed cards are in non-increasing created_at,
\* under 'oldest' in non-decreasing created_at, under 'rating' in
\* non-increasing average rating (0 for a form without fills), and two cards
\* that tie under the mode are in their fetched order.
C11_OrderFollowsSortMode ==
    (ListShown /\ sortBy \in {"newest", "oldest", "rating"}) =>
        \A i, j \in 1..Len(cards) :
            i < j =>
                /\ ModeOrder(cards[i], cards[j]) >= 0
                /\ ModeOrder(cards[i], cards[j]) = 0 =>
                       FetchedPos(cards[i]) < FetchedPos(cards[j])

\* Under 'rating', the form fetched second (average 5) is displayed first,
\* ahead of the one fetched first (average 2).
C11_Witness ==
    /\ ListShown
    /\ sortBy = "rating"
    /\ Len(cards) = 2
    /\ cards[1].id = 2 /\ cards[2].id = 1
    /\ cards[1].averageRating = [num |-> 5, den |-> 1]
    /\ cards[2].averageRating = [num |-> 2, den |-> 1]

\* ----------------------------------------------- C12: the 'expiring' order

\* C12: under 'expiring' no card without an expire_at is displayed before one
\* with an expire_at, the cards with an expire_at are in non-decreasing
\* expire_at, and the cards without one are in their fetched order.
C12_ExpiringOrder ==
    (ListShown /\ sortBy = "expiring") =>
        \A i, j \in 1..Len(cards) :
            i < j =>
                LET a == FormOfCard(cards[i]).expire_at
                    b == FormOfCard(cards[j]).expire_at
                IN  /\ a = None => b = None
                    /\ (a # None /\ b # None) => a[1] <= b[1]
                    /\ (a = None /\ b = None) =>
                           FetchedPos(cards[i]) < FetchedPos(cards[j])

\* Under 'expiring', the form fetched second, which expires, is displayed
\* before the one fetched first, which does not.
C12_Witness ==
    /\ ListShown
    /\ sortBy = "expiring"
    /\ Len(cards) = 2
    /\ cards[1].id = 2 /\ cards[2].id = 1
    /\ cards[1].expireAt # None
    /\ cards[2].expireAt = None

\* ------------------------------------------- C13: the order of the posters

\* C13: topPosters is in non-increasing formsPosted; of two posters with
\* equal formsPosted the one with more responses is not ranked below the
\* other, and with equal responses too, the one with the higher average
\* rating is not ranked below the other.
C13_PostersRankedByAllThree ==
    \A i, j \in 1..Len(topPosters) :
        i < j =>
            LET a == topPosters[i]
                b == topPosters[j]
            IN  /\ a.formsPosted >= b.formsPosted
                /\ a.formsPosted = b.formsPosted =>
                       /\ a.totalResponses >= b.totalResponses
                       /\ a.totalResponses = b.totalResponses =>
                              RatCompare(a.avgRating, b.avgRating) >= 0

\* ---------------------------------------------- C14: the fillers' numbers

\* The user whose profile carries the name.
UserNamed(name) == CHOOSE u \in UserIds : ProfileName(u) = name

\* C14: every listed filler is a user whose formsFilled is the number of
\* fetched form_fills rows with the user's id, whose points are 5 times that
\* and whose badges are 0; and no user whose profile lookup returned no row is
\* listed, among the fillers or among the posters.
C14_FillerStatsAndProfiles ==
    /\ \A k \in 1..Len(topFillers) :
         LET e == topFillers[k]
             u == UserNamed(e.name)
         IN  /\ \E v \in UserIds : ProfileName(v) = e.name
             /\ e.formsFilled =
                  Cardinality({i \in 1..Len(lbLoc.fillersData) :
                                  lbLoc.fillersData[i].user_id = u})
             /\ e.points = 5 * e.formsFilled
             /\ e.badges = 0
             /\ Request("fillerProfile", u) \notin lbLoc.noProfile
    /\ \A k \in 1..Len(topPosters) :
         /\ \E v \in UserIds : ProfileName(v) = topPosters[k].name
         /\ Request("posterProfile", UserNamed(topPosters[k].name)) \notin lbLoc.noProfile

\* A user with two fill rows is listed with 10 points; of two users with
\* forms, one is listed and the other, whose profile lookup returned no row,
\* is not.
C14_Witness ==
    /\ lbPc = "done"
    /\ Len(topFillers) = 1
    /\ topFillers[1].formsFilled = 2
    /\ topFillers[1].points = 10
    /\ Len(lbLoc.posterStats) = 2
    /\ Len(topPosters) = 1
    /\ \E req \in lbLoc.noProfile : req.kind = "posterProfile"

\* ------------------------------------------------- C19: no rollback

\* The names in a list of entries.
NamesIn(entries) == {entries[k].name : k \in 1..Len(entries)}

\* C19: the step in which fetchLeaderboardData catches an error leaves
\* topFillers and topPosters as they are, shows the error toast and sets
\* loading to false; topFillers changes only when the fillers have been
\* ranked and topPosters only at the successful end, so after a failed fills
\* query both lists are the previous ones, and after a failed forms query
\* topFillers lists the newly fetched fillers and topPosters is the previous
\* list.
C19_NoRollback ==
    [][ /\ (lbPc # "done" /\ lbPc' = "done" /\ lbLoc'.caught # None) =>
              /\ topFillers' = topFillers
              /\ topPosters' = topPosters
              /\ LoadErrorToast \in toasts'
              /\ lbLoading' = FALSE
              /\ lbLoc'.caught[1].kind = "posters" =>
                     /\ NamesIn(topFillers') = NamesIn(lbLoc'.fillersWithNames)
                     /\ Len(topFillers') = Len(lbLoc'.fillersWithNames)
        /\ topFillers' # topFillers => (lbPc # "awaitPosters" /\ lbPc' = "awaitPosters")
        /\ topPosters' # topPosters => (lbPc' = "done" /\ lbLoc'.caught = None)
      ]_vars

\* The forms query has failed after the fillers were ranked: topFillers holds
\* the new ranking, topPosters is still the initial list, the toast is shown
\* and loading is false.
C19_Witness ==
    /\ lbPc = "done"
    /\ lbLoc.caught = Some(Request("posters", NULL))
    /\ Len(topFillers) = 2
    /\ topPosters = <<>>
    /\ LoadErrorToast \in toasts
    /\ lbLoading = FALSE

\* --------------------------------------------- C15: the guards of handleSubmit

\* The functions called by the last handler run.
CalledAfter == {modalCalls'[k].fn : k \in 1..Len(modalCalls')}

\* C15: an insert is sent only with a user logged in and a rating in 1..5,
\* and it carries that user and rating; a handleSubmit with no user or with
\* rating 0 calls toast.error and nothing else, sends no insert, leaves
\* rating, comment and isSubmitting as they are and leaves the modal open.
C15_SubmitGuards ==
    [][ /\ Len(inserts') > Len(inserts) =>
              /\ user # NULL
              /\ rating \in 1..5
              /\ inserts'[Len(inserts')].user_id = user
              /\ inserts'[Len(inserts')].rating = rating
        /\ (CallHandleSubmit /\ (user = NULL \/ rating = 0)) =>
              /\ CalledAfter = {"toast.error"}
              /\ Toast("error", modalCalls'[1].arg) \in toasts'
              /\ inserts' = inserts
              /\ rating' = rating
              /\ comment' = comment
              /\ isSubmitting' = isSubmitting
              /\ isOpen'
      ]_vars

\* handleSubmit has run with a user and no rating: the toast asks for a
\* rating, nothing was sent, the modal is open.
C15_Witness ==
    /\ user # NULL
    /\ rating = 0
    /\ modalCalls = <<Call("toast.error", "Please provide a rating")>>
    /\ inserts = <<>>
    /\ ~isSubmitting
    /\ isOpen

\* --------------------------------------------- C16: after the insert

\* The place of the first call of fn by the last handler run, 0 if none.
CallPos(fn) ==
    IF \E k \in 1..Len(modalCalls') : modalCalls'[k].fn = fn
    THEN CHOOSE k \in 1..Len(modalCalls') :
             /\ modalCalls'[k].fn = fn
             /\ \A j \in 1..(k - 1) : modalCalls'[j].fn # fn
    ELSE 0

\* C16: when an insert is answered, either it was saved: onFormFilled is
\* called, then onClose, the modal is closed and rating and comment are 0 and
\* ''; or it failed: toast.error is called, onFormFilled and onClose are not,
\* and rating, comment and isOpen are as before.
C16_AfterTheInsert ==
    [][ Len(inserts') < Len(inserts) =>
            IF "toast.success" \in CalledAfter
            THEN /\ CallPos("onFormFilled") > 0
                 /\ CallPos("onClose") > CallPos("onFormFilled")
                 /\ isOpen' = FALSE
                 /\ rating' = 0
                 /\ comment' = <<>>
                 /\ isSubmitting' = FALSE
            ELSE /\ CalledAfter = {"toast.error"}
                 /\ Toast("error", modalCalls'[1].arg) \in toasts'
                 /\ rating' = rating
                 /\ comment' = comment
                 /\ isOpen' = isOpen
                 /\ isSubmitting' = FALSE
      ]_vars

\* An insert has failed: the error toast was shown, and the open modal still
\* holds the rating and the comment, with the submit button enabled.
C16_Witness ==
    /\ modalCalls = <<Call("toast.error", "Failed to submit feedback: permission denied")>>
    /\ rating = 4
    /\ comment = <<"o", "k">>
    /\ isOpen
    /\ SubmitEnabled
    /\ inserts = <<>>

\* --------------------------------------------- C18: one insert at a time

\* C18: a modal has at most one insert in flight, isSubmitting is true
\* exactly while it has one, and the submit button is then disabled.
C18_OneInsertInFlight ==
    /\ Len(inserts) <= 1
    /\ isSubmitting <=> (inserts # <<>>)
    /\ isSubmitting => ~SubmitEnabled

\* An insert is in flight in an open modal that has a rating (the user closed
\* and reopened it and rated again): only isSubmitting disables the button.
C18_Witness ==
    /\ isOpen
    /\ isSubmitting
    /\ Len(inserts) = 1
    /\ rating # 0
    /\ rating # inserts[1].rating

\* --------------------------------------------- C17: the busy flags are cleared

\* C17: provided the backend answers every request, every invocation of
\* fetchForms in flight finishes, and the step that finishes it sets loading to
\* false, whether it stored rows, stored an empty result or caught an error;
\* fetchLeaderboardData, once started, ends with loading false; and
\* isSubmitting, once set by handleSubmit, is set back to false.
C17_BusyFlagsCleared ==
    /\ (feedWatch > 0) ~> (feedWatch = -1)
    /\ [][InvocationFinishes => ~loading']_vars
    /\ (lbPc \notin {"idle", "done"}) ~> (lbPc = "done" /\ ~lbLoading)
    /\ isSubmitting ~> ~isSubmitting

\* The followed invocation has finished.  Of two overlapping invocations one
\* ended in its catch block and the other stored its rows last; none is in
\* flight and loading is false.
C17_Witness ==
    /\ feedWatch = -1
    /\ feedInv = <<>>
    /\ ~loading
    /\ error # NULL
    /\ feedLast # None
    /\ feedLast[1].outcome = "stored"
    /\ feedLast[1].stale = FALSE

====
